---------------------------- MODULE Spec2Model ----------------------------
(***************************************************************************)
(* Model of the arcade defense game of src/src/App.tsx: the per-frame      *)
(* simulation (update), the fire command (handleFire), the session reset   *)
(* (initGame) and the slow-time timeout callback.                          *)
(*                                                                         *)
(* Numbers.  The program computes in IEEE doubles on an 800x600 plane.     *)
(* The model computes in fixed point: one unit is 1/20 pixel, so that      *)
(* every constant of the program (speeds 0.5 .. 10.5, radii, 0.4 slow      *)
(* factor on the speeds used here) is an integer.  Movement along an       *)
(* axis-parallel or 3-4-5 direction is exact; any other direction is       *)
(* rounded to the nearest unit per component and per frame.  Comparisons   *)
(* of distances are done on the squares, which is exact.                   *)
(*                                                                         *)
(* Time.  `now' models the one wall clock behind requestAnimationFrame's   *)
(* timestamp, Date.now() and setTimeout, in milliseconds.                  *)
(*                                                                         *)
(* React state (status, score, isSugarActive) is modelled as committed     *)
(* between handlers: every handler sees the values the previous one left.  *)
(*                                                                         *)
(* The voice commander (src/src/components/VoiceCommander.tsx with         *)
(* src/src/services/voiceService.ts) is a component of its own: App does   *)
(* not use it.  It has its own specification, VoiceSpec, and stays as      *)
(* mounted in the runs of the game.                                        *)
(***************************************************************************)
EXTENDS Integers, Sequences, FiniteSets, TLC

VARIABLES
    status,          \* useState<GameStatus>: "START" | "PLAYING" | "WON" | "LOST"
    score,           \* useState(0)
    isSugarActive,   \* useState(false)
    rockets,         \* rocketsRef.current
    missiles,        \* missilesRef.current
    explosions,      \* explosionsRef.current
    powerUps,        \* powerUpsRef.current
    batteries,       \* batteriesRef.current
    cities,          \* citiesRef.current
    lastSpawnTime,   \* lastSpawnTime.current
    timers,          \* pending setTimeout callbacks of the slow-time effect: due times
    now,             \* the wall clock, ms
    nextId,          \* source of fresh entity ids
    last,            \* what the last handler did (its inputs and the events it emitted)
    isActive,        \* VoiceCommander: useState(false)
    isSpeaking,      \* VoiceCommander: useState(false)
    audioQueue,      \* audioQueueRef.current: the chunks received and not yet started
    isPlaying,       \* isPlayingRef.current
    audioContextRef, \* audioContextRef.current is set
    service,         \* voiceServiceRef.current: session, audioContext, processor, stream
    sessions,        \* the live sessions ai.live.connect was asked for, by id: their state
    media,           \* getUserMedia: the calls pending, the captures granted, those not stopped
    playing,         \* the chunks whose buffer source was started and has not ended
    heard,           \* what became of the chunks: arrived, played (in order), failed, dropped
    clicks           \* the clicks on the voice button so far

\* the state of the game, and the state of the voice commander
game == <<status, score, isSugarActive, rockets, missiles, explosions, powerUps,
          batteries, cities, lastSpawnTime, timers, now, nextId, last>>
voice == <<isActive, isSpeaking, audioQueue, isPlaying, audioContextRef, service,
           sessions, media, playing, heard, clicks>>

vars == <<status, score, isSugarActive, rockets, missiles, explosions, powerUps,
          batteries, cities, lastSpawnTime, timers, now, nextId, last,
          isActive, isSpeaking, audioQueue, isPlaying, audioContextRef, service,
          sessions, media, playing, heard, clicks>>

---------------------------------------------------------------------------
(* Units and arithmetic *)

\* n pixels, in model units
Px(n) == 20 * n
\* c hundredths of a pixel, in model units (c a multiple of 5)
Cpx(c) == c \div 5

Max(a, b) == IF a >= b THEN a ELSE b
Min(a, b) == IF a <= b THEN a ELSE b
Abs(a) == IF a >= 0 THEN a ELSE -a
Sq(a) == a * a

\* a / b rounded to the nearest integer (b > 0)
RoundDiv(a, b) == IF a >= 0 THEN (2 * a + b) \div (2 * b)
                  ELSE -((2 * (-a) + b) \div (2 * b))

RECURSIVE IsqrtFrom(_, _)
IsqrtFrom(n, g) ==
    LET h == (g + n \div g) \div 2
    IN  IF h >= g THEN g ELSE IsqrtFrom(n, h)
\* Math.sqrt on a square of model units: the floor of the root
Isqrt(n) == IF n <= 0 THEN 0 ELSE IsqrtFrom(n, n)

\* Math.sqrt(dx*dx + dy*dy), rounded to the nearest unit
Dist(dx, dy) ==
    LET n == Sq(dx) + Sq(dy)
        r == Isqrt(n)
    IN  IF n - Sq(r) > r THEN r + 1 ELSE r

\* Array.prototype.splice(i, 1), on a 1-based sequence
Splice(s, i) == SubSeq(s, 1, i - 1) \o SubSeq(s, i + 1, Len(s))

---------------------------------------------------------------------------
(* Program constants *)

CANVAS_WIDTH == Px(800)
CANVAS_HEIGHT == Px(600)
EXPLOSION_MAX_RADIUS == Px(35)
EXPLOSION_SPEED == Cpx(150)
MISSILE_SPEED == Px(7)
ROCKET_SPEED_MIN == Cpx(40)
ROCKET_SPEED_MAX == Cpx(80)

\* the id a missile carries when it tracks nothing (targetRocketId undefined)
NoId == 0
\* the coordinate of a missile whose position became NaN (0/0 in its direction)
NaN == -1000000

Point(x, y) == [x |-> x, y |-> y]

\* batteriesRef / initGame: the three emplacements, left, center, right
InitialBatteries ==
    << [x |-> Px(100), y |-> CANVAS_HEIGHT - Px(40), missiles |-> 50,
        maxMissiles |-> 50, active |-> TRUE],
       [x |-> CANVAS_WIDTH \div 2, y |-> CANVAS_HEIGHT - Px(40), missiles |-> 100,
        maxMissiles |-> 100, active |-> TRUE],
       [x |-> CANVAS_WIDTH - Px(100), y |-> CANVAS_HEIGHT - Px(40), missiles |-> 50,
        maxMissiles |-> 50, active |-> TRUE] >>

\* citiesRef / initGame: the six structures
InitialCities ==
    << [x |-> Px(150), active |-> TRUE], [x |-> Px(250), active |-> TRUE],
       [x |-> Px(350), active |-> TRUE], [x |-> Px(450), active |-> TRUE],
       [x |-> Px(550), active |-> TRUE], [x |-> Px(650), active |-> TRUE] >>

\* per-shot cost of battery i (0-based, as in the program)
Cost(i) == IF i = 0 THEN 10 ELSE 1


---------------------------------------------------------------------------
(* What a handler reports about itself.  sfx is the sequence of playSfx   *)
(* calls it made; the other fields name the entities the events were      *)
(* about, in the order the handler met them; status0 and score0 are the   *)
(* status and the score the handler found.                                *)

NoEvents ==
    [op |-> "none", x |-> 0, y |-> 0, best |-> -1, status0 |-> "START", score0 |-> 0,
     spawned |-> FALSE,
     sfx |-> <<>>, impacts |-> <<>>, kills |-> <<>>, consumed |-> <<>>,
     detonated |-> <<>>, removedBlasts |-> <<>>, moved |-> <<>>, expired |-> <<>>,
     blasts |-> <<>>]

---------------------------------------------------------------------------
(* initGame: start or reset of a session *)

Report(op) == [NoEvents EXCEPT !.op = op, !.status0 = status, !.score0 = score]

\* a reset that leaves the emplacements as they are
initGameKeepBatteries ==
    /\ status \in {"START", "WON", "LOST"}
    /\ score' = 0
    /\ isSugarActive' = FALSE
    /\ rockets' = <<>>
    /\ missiles' = <<>>
    /\ explosions' = <<>>
    /\ powerUps' = <<>>
    /\ cities' = InitialCities
    /\ status' = "PLAYING"
    /\ last' = Report("init")
    /\ UNCHANGED <<batteries, lastSpawnTime, timers, now, nextId>>
    /\ UNCHANGED voice

initGame ==
    /\ status \in {"START", "WON", "LOST"}   \* the button is rendered only then
    /\ score' = 0
    /\ isSugarActive' = FALSE
    /\ rockets' = <<>>
    /\ missiles' = <<>>
    /\ explosions' = <<>>
    /\ powerUps' = <<>>
    /\ batteries' = InitialBatteries
    /\ cities' = InitialCities
    /\ status' = "PLAYING"
    /\ last' = Report("init")
    /\ UNCHANGED <<lastSpawnTime, timers, now, nextId>>
    /\ UNCHANGED voice

---------------------------------------------------------------------------
(* handleFire: one fire command at the play-space point (x, y) *)

\* a battery taken as usable whatever its ammunition
EligibleAnyAmmo(bs, i) == bs[i + 1].active

\* the battery a fire at x may use: active and holding its per-shot cost
Eligible(bs, i) == bs[i + 1].active /\ bs[i + 1].missiles >= Cost(i)

\* batteriesRef.current.forEach: the first eligible battery at the least |b.x - x|,
\* -1 when there is none.  minDist = -1 stands for Infinity.
RECURSIVE BestFrom(_, _, _, _, _)
BestFrom(bs, x, i, bestBatteryIndex, minDist) ==
    IF i >= Len(bs) THEN bestBatteryIndex
    ELSE LET dist == Abs(bs[i + 1].x - x)
         IN  IF Eligible(bs, i) /\ (minDist = -1 \/ dist < minDist)
             THEN BestFrom(bs, x, i + 1, i, dist)
             ELSE BestFrom(bs, x, i + 1, bestBatteryIndex, minDist)

\* the selection that lets a later battery win on equal distance
BestBatteryLastOnTie(bs, x) ==
    LET ok == {i \in 0..(Len(bs) - 1) : Eligible(bs, i)}
        near == {i \in ok : \A j \in ok : Abs(bs[i + 1].x - x) <= Abs(bs[j + 1].x - x)}
    IN  IF near = {} THEN -1 ELSE CHOOSE i \in near : \A j \in near : j <= i

BestBattery(bs, x) == BestFrom(bs, x, 0, -1, -1)

\* the square of the distance the sort of the center battery compares
Dist2(p, x, y) == Sq(p.x - x) + Sq(p.y - y)

\* insertion of r into a sequence sorted by distance to (x, y), after its equals
RECURSIVE InsertByDist(_, _, _, _)
InsertByDist(sorted, r, x, y) ==
    IF sorted = <<>> THEN <<r>>
    ELSE IF Dist2(r.current, x, y) < Dist2(Head(sorted).current, x, y)
         THEN <<r>> \o sorted
         ELSE <<Head(sorted)>> \o InsertByDist(Tail(sorted), r, x, y)

\* [...rocketsRef.current].sort(by distance to (x, y)): stable, ascending
RECURSIVE SortByDist(_, _, _)
SortByDist(rs, x, y) ==
    IF rs = <<>> THEN <<>>
    ELSE InsertByDist(SortByDist(SubSeq(rs, 1, Len(rs) - 1), x, y), rs[Len(rs)], x, y)

\* the first two rockets of the pool, unsorted
TrackFirstTwo(rs, x, y) == SubSeq(rs, 1, Min(2, Len(rs)))

\* activeRockets.slice(0, 2)
TrackTargets(rs, x, y) ==
    LET sorted == SortByDist(rs, x, y)
    IN  SubSeq(sorted, 1, Min(2, Len(sorted)))

\* a missile that always records the center battery
NewMissileCenterIndex(id, b, tx, ty, speed, batteryIndex, targetRocketId) ==
    [id |-> id, start |-> Point(b.x, b.y), current |-> Point(b.x, b.y),
     target |-> Point(tx, ty), speed |-> speed, batteryIndex |-> 1,
     targetRocketId |-> targetRocketId]

NewMissile(id, b, tx, ty, speed, batteryIndex, targetRocketId) ==
    [id |-> id, start |-> Point(b.x, b.y), current |-> Point(b.x, b.y),
     target |-> Point(tx, ty), speed |-> speed, batteryIndex |-> batteryIndex,
     targetRocketId |-> targetRocketId]

\* the missiles the center battery launches at the selected rockets
TrackingMissiles(targets, b, id0) ==
    [k \in 1..Len(targets) |->
        NewMissile(id0 + k - 1, b, targets[k].current.x, targets[k].current.y,
                   (MISSILE_SPEED * 3) \div 2, 1, targets[k].id)]

\* the cost without its minimum of 1
FireCountNoMin(targets) == Len(targets)

\* Math.max(1, targets.length): the ammunition a center fire costs
FireCount(targets) == Max(1, Len(targets))

\* a band that starts at the bottom edge only
TooLowAtEdge(y) == y > CANVAS_HEIGHT

\* the ground band no fire command may point into
TooLow(y) == y > CANVAS_HEIGHT - Px(80)

\* a guard that takes a session that has not started for a running one
IdleOnlyLost(st) == st = "LOST"

\* status !== GameStatus.PLAYING
Idle(st) == st # "PLAYING"

\* the ammunition check of update, run by the fire command
CheckAmmoEarly(bs) ==
    [k \in 1..Len(bs) |->
        IF bs[k].active /\ bs[k].missiles < Cost(k - 1)
        THEN [bs[k] EXCEPT !.active = FALSE] ELSE bs[k]]

\* a fire command that deactivates the battery it has emptied
handleFireChecksAmmo(x, y) ==
    LET best == BestBattery(batteries, x)
        battery == batteries[best + 1]
        targets == TrackTargets(rockets, x, y)
        count == FireCount(targets)
    IN
    /\ last' = [Report("fire") EXCEPT !.x = x, !.y = y,
                   !.best = IF status = "PLAYING" /\ ~TooLow(y) THEN best ELSE -1]
    /\ IF Idle(status) \/ TooLow(y) \/ best = -1
       THEN UNCHANGED <<batteries, missiles, nextId>>
       ELSE IF best = 0
       THEN \* Left Battery: Nuke (consumes 10)
            /\ batteries' = CheckAmmoEarly([batteries EXCEPT ![1].missiles = @ - 10])
            /\ missiles' = Append(missiles,
                   NewMissile(nextId, battery, x, y, (MISSILE_SPEED * 7) \div 10, 0, NoId))
            /\ nextId' = nextId + 1
       ELSE IF best = 1
       THEN \* Middle Battery: Dual Tracking
            /\ batteries' = CheckAmmoEarly([batteries EXCEPT ![2].missiles = @ - count])
            /\ missiles' =
                  IF Len(targets) > 0
                  THEN missiles \o TrackingMissiles(targets, battery, nextId)
                  ELSE Append(missiles,
                          NewMissile(nextId, battery, x, y, MISSILE_SPEED, 1, NoId))
            /\ nextId' = nextId + count
       ELSE \* Right Battery
            /\ batteries' = CheckAmmoEarly([batteries EXCEPT ![3].missiles = @ - 1])
            /\ missiles' = Append(missiles,
                   NewMissile(nextId, battery, x, y, MISSILE_SPEED, 2, NoId))
            /\ nextId' = nextId + 1
    /\ UNCHANGED <<status, score, isSugarActive, rockets, explosions, powerUps,
                   cities, lastSpawnTime, timers, now>>

handleFire(x, y) ==
    LET best == BestBattery(batteries, x)
        battery == batteries[best + 1]
        targets == TrackTargets(rockets, x, y)
        count == FireCount(targets)
    IN
    /\ last' = [Report("fire") EXCEPT !.x = x, !.y = y,
                   !.best = IF status = "PLAYING" /\ ~TooLow(y) THEN best ELSE -1]
    /\ IF Idle(status) \/ TooLow(y) \/ best = -1
       THEN UNCHANGED <<batteries, missiles, nextId>>
       ELSE IF best = 0
       THEN \* Left Battery: Nuke (consumes 10)
            /\ batteries' = [batteries EXCEPT ![1].missiles = @ - 10]
            /\ missiles' = Append(missiles,
                   NewMissile(nextId, battery, x, y, (MISSILE_SPEED * 7) \div 10, 0, NoId))
            /\ nextId' = nextId + 1
       ELSE IF best = 1
       THEN \* Middle Battery: Dual Tracking
            /\ batteries' = [batteries EXCEPT ![2].missiles = @ - count]
            /\ missiles' =
                  IF Len(targets) > 0
                  THEN missiles \o TrackingMissiles(targets, battery, nextId)
                  ELSE Append(missiles,
                          NewMissile(nextId, battery, x, y, MISSILE_SPEED, 1, NoId))
            /\ nextId' = nextId + count
       ELSE \* Right Battery
            /\ batteries' = [batteries EXCEPT ![3].missiles = @ - 1]
            /\ missiles' = Append(missiles,
                   NewMissile(nextId, battery, x, y, MISSILE_SPEED, 2, NoId))
            /\ nextId' = nextId + 1
    /\ UNCHANGED <<status, score, isSugarActive, rockets, explosions, powerUps,
                   cities, lastSpawnTime, timers, now>>

---------------------------------------------------------------------------
(* update: one frame.  The passes below work on a record W of the state    *)
(* the frame mutates: rockets, missiles, explosions, powerUps, batteries,  *)
(* cities, score, sugar (the number of setIsSugarActive(true) calls, each  *)
(* with its setTimeout) and ev (the events).                               *)
(*                                                                         *)
(* Every pass is an Array.prototype.forEach whose callback may splice the  *)
(* array it walks: forEach visits the indices 0 .. n-1 of the length n it  *)
(* found at the start, and at each index takes the element that is there   *)
(* at that moment, if any.  Sequences are 1-based: index runs 1 .. n.      *)

\* the delay without the cap of the score at 800
SpawnDelayUncapped(s) == Max(200, 1500 - s)

\* Math.max(200, 1500 - Math.min(score, 800))
SpawnDelay(s) == Max(200, 1500 - Min(s, 800))

\* spawnRocket's targets: the active cities, then the active batteries
RECURSIVE ActiveXs(_)
ActiveXs(seq) ==
    IF seq = <<>> THEN <<>>
    ELSE (IF Head(seq).active THEN <<Head(seq).x>> ELSE <<>>) \o ActiveXs(Tail(seq))

SpawnTargets(cs, bs) == ActiveXs(cs) \o ActiveXs(bs)

\* spawnRocket, with its three random draws given: the start x, the index of the
\* target among the targets, the speed
spawnRocket(W, id, startX, pick, speed) ==
    LET targets == SpawnTargets(W.cities, W.batteries)
    IN  IF Len(targets) = 0 THEN W
        ELSE [W EXCEPT !.rockets = Append(@,
                 [id |-> id, start |-> Point(startX, 0), current |-> Point(startX, 0),
                  target |-> Point(targets[pick + 1], CANVAS_HEIGHT - Px(20)),
                  speed |-> speed])]

\* spawnPowerUp, with its random draws given
spawnPowerUp(W, id, type, x, y, time) ==
    [W EXCEPT !.powerUps = Append(@,
        [id |-> id, x |-> x, y |-> y, type |-> type, createdAt |-> time,
         duration |-> 5000])]

\* a penalty that is not clamped
RECURSIVE PenaltyUnclamped(_, _, _)
PenaltyUnclamped(s, n, amount) ==
    IF n = 0 THEN s ELSE PenaltyUnclamped(s - amount, n - 1, amount)

\* setScore(prev => Math.max(0, prev - amount)), n times
RECURSIVE ApplyPenalty(_, _, _)
ApplyPenalty(s, n, amount) ==
    IF n = 0 THEN s ELSE ApplyPenalty(Max(0, s - amount), n - 1, amount)

\* an impact that reaches 60 wide
StruckWide(seq, x) == {k \in 1..Len(seq) : seq[k].active /\ Abs(seq[k].x - x) < Px(60)}

\* the structures / emplacements an impact at x deactivates
Struck(seq, x) == {k \in 1..Len(seq) : seq[k].active /\ Abs(seq[k].x - x) < Px(30)}

Deactivate(seq, ks) == [k \in 1..Len(seq) |->
                          IF k \in ks THEN [seq[k] EXCEPT !.active = FALSE] ELSE seq[k]]

\* one frame's step of a rocket: along start -> target by speed, times 0.4 when slow
MoveRocket(r, slow) ==
    LET dx == r.target.x - r.start.x
        dy == r.target.y - r.start.y
        dist == Dist(dx, dy)
        num == IF slow THEN 2 ELSE 1
        den == IF slow THEN 5 ELSE 1
    IN  [r EXCEPT !.current = Point(r.current.x + RoundDiv(dx * r.speed * num, dist * den),
                                    r.current.y + RoundDiv(dy * r.speed * num, dist * den))]

\* the impact of rocket r (already moved), found at index of W.rockets
Impact(W, r, index) ==
    LET cs == Struck(W.cities, r.current.x)
        bs == Struck(W.batteries, r.current.x)
    IN  [W EXCEPT
           !.explosions = Append(@, [id |-> [kind |-> "impact", of |-> r.id],
                                     x |-> r.current.x, y |-> r.current.y,
                                     radius |-> Px(2), maxRadius |-> Px(20),
                                     growing |-> TRUE]),
           !.cities = Deactivate(@, cs),
           !.batteries = Deactivate(@, bs),
           !.score = ApplyPenalty(ApplyPenalty(@, Cardinality(cs), 10),
                                  Cardinality(bs), 30),
           !.rockets = Splice(@, index),
           !.ev.sfx = Append(@, "loss"),
           !.ev.impacts = Append(@, [id |-> r.id, x |-> r.current.x,
                                     cities |-> cs, batteries |-> bs])]

\* a ground test that lets a rocket rest on its target's height
HitGroundStrict(r) == r.current.y > r.target.y

\* rocket.current.y >= rocket.target.y
HitGround(r) == r.current.y >= r.target.y

\* rocketsRef.current.forEach((rocket, index) => ...)
RECURSIVE UpdateRockets(_, _, _, _)
UpdateRockets(W, index, n, slow) ==
    IF index > n \/ index > Len(W.rockets) THEN W
    ELSE LET r == MoveRocket(W.rockets[index], slow)
             W1 == [W EXCEPT !.rockets[index] = r,
                             !.ev.moved = Append(@, r.id)]
         IN  UpdateRockets(IF HitGround(r) THEN Impact(W1, r, index) ELSE W1,
                           index + 1, n, slow)

\* rocketsRef.current.find(r => r.id === id): its index, 0 when there is none
FindRocket(rs, id) ==
    IF \E k \in 1..Len(rs) : rs[k].id = id
    THEN CHOOSE k \in 1..Len(rs) : rs[k].id = id /\ \A j \in 1..(k - 1) : rs[j].id # id
    ELSE 0

\* the tracking part of the missile callback
Retarget(m, rs) ==
    IF m.targetRocketId = NoId THEN m
    ELSE LET k == FindRocket(rs, m.targetRocketId)
         IN  IF k # 0 THEN [m EXCEPT !.target = rs[k].current]
             ELSE [m EXCEPT !.targetRocketId = NoId]

\* one frame's step of a missile: along start -> target by speed
MoveMissile(m) ==
    LET dx == m.target.x - m.start.x
        dy == m.target.y - m.start.y
        dist == Dist(dx, dy)
    IN  IF dist = 0 \/ m.current.x = NaN
        THEN [m EXCEPT !.current = Point(NaN, NaN)]
        ELSE [m EXCEPT !.current = Point(m.current.x + RoundDiv(dx * m.speed, dist),
                                         m.current.y + RoundDiv(dy * m.speed, dist))]

\* distToTarget < missile.speed
Arrived(m) ==
    /\ m.current.x # NaN
    /\ Dist2(m.target, m.current.x, m.current.y) < Sq(m.speed)

\* one maximum radius for the blasts of all three batteries
BlastRadiusUniform(batteryIndex) == EXPLOSION_MAX_RADIUS

\* isNuke ? 150 : (isWide ? 70 : EXPLOSION_MAX_RADIUS)
BlastRadius(batteryIndex) ==
    IF batteryIndex = 0 THEN Px(150)
    ELSE IF batteryIndex = 2 THEN Px(70) ELSE EXPLOSION_MAX_RADIUS

Detonate(W, m, index) ==
    [W EXCEPT
       !.explosions = Append(@, [id |-> [kind |-> "exp", of |-> m.id],
                                 x |-> m.target.x, y |-> m.target.y,
                                 radius |-> Px(2), maxRadius |-> BlastRadius(m.batteryIndex),
                                 growing |-> TRUE]),
       !.missiles = Splice(@, index),
       !.ev.detonated = Append(@, m.id)]

\* missilesRef.current.forEach((missile, index) => ...)
RECURSIVE UpdateMissiles(_, _, _)
UpdateMissiles(W, index, n) ==
    IF index > n \/ index > Len(W.missiles) THEN W
    ELSE LET m == MoveMissile(Retarget(W.missiles[index], W.rockets))
             W1 == [W EXCEPT !.missiles[index] = m]
         IN  UpdateMissiles(IF Arrived(m) THEN Detonate(W1, m, index) ELSE W1,
                            index + 1, n)

\* powerUpsRef.current.forEach((pu, index) => ...): expiry by age
RECURSIVE UpdatePowerUps(_, _, _, _)
UpdatePowerUps(W, index, n, time) ==
    IF index > n \/ index > Len(W.powerUps) THEN W
    ELSE LET pu == W.powerUps[index]
         IN  UpdatePowerUps(IF time - pu.createdAt > pu.duration
                            THEN [W EXCEPT !.powerUps = Splice(@, index),
                                           !.ev.expired = Append(@, pu.id)]
                            ELSE W,
                            index + 1, n, time)

\* Math.sqrt(...) < exp.radius, for the point (x, y)
Within(e, x, y) == e.radius > 0 /\ Dist2(e, x, y) < Sq(e.radius)

\* rocketsRef.current.forEach((rocket, rIndex) => ...) inside the explosion callback
RECURSIVE CollideRockets(_, _, _, _)
CollideRockets(W, e, rIndex, n) ==
    IF rIndex > n \/ rIndex > Len(W.rockets) THEN W
    ELSE LET r == W.rockets[rIndex]
         IN  CollideRockets(IF Within(e, r.current.x, r.current.y)
                            THEN [W EXCEPT !.rockets = Splice(@, rIndex),
                                           !.score = @ + 20,
                                           !.ev.sfx = Append(@, "score"),
                                           !.ev.kills = Append(@, r.id)]
                            ELSE W,
                            e, rIndex + 1, n)

\* an ammunition power-up that refills every battery, active or not
ConsumeRefillAll(W, pu, puIndex, time) ==
    LET bs == W.batteries
        W1 == IF pu.type = "AMMO"
              THEN [W EXCEPT !.batteries =
                       [k \in 1..Len(bs) |->
                          [bs[k] EXCEPT !.missiles = bs[k].maxMissiles]]]
              ELSE IF pu.type = "SUGAR"
              THEN [W EXCEPT !.sugar = Append(@, time + 5000)]
              ELSE W
    IN  [W1 EXCEPT !.powerUps = Splice(@, puIndex),
                   !.ev.sfx = Append(@, "powerup"),
                   !.ev.consumed = Append(@, [id |-> pu.id, type |-> pu.type])]

\* a consumed power-up that stays in the pool
ConsumeKeepPickup(W, pu, puIndex, time) ==
    LET bs == W.batteries
        W1 == IF pu.type = "AMMO"
              THEN [W EXCEPT !.batteries =
                       [k \in 1..Len(bs) |->
                          IF bs[k].active
                          THEN [bs[k] EXCEPT !.missiles = bs[k].maxMissiles]
                          ELSE bs[k]]]
              ELSE IF pu.type = "SUGAR"
              THEN [W EXCEPT !.sugar = Append(@, time + 5000)]
              ELSE W
    IN  [W1 EXCEPT !.ev.sfx = Append(@, "powerup"),
                   !.ev.consumed = Append(@, [id |-> pu.id, type |-> pu.type])]

\* the effect of a consumed power-up
Consume(W, pu, puIndex, time) ==
    LET bs == W.batteries
        W1 == IF pu.type = "AMMO"
              THEN [W EXCEPT !.batteries =
                       [k \in 1..Len(bs) |->
                          IF bs[k].active
                          THEN [bs[k] EXCEPT !.missiles = bs[k].maxMissiles]
                          ELSE bs[k]]]
              ELSE IF pu.type = "SUGAR"
              THEN [W EXCEPT !.sugar = Append(@, time + 5000)]
              ELSE W
    IN  [W1 EXCEPT !.powerUps = Splice(@, puIndex),
                   !.ev.sfx = Append(@, "powerup"),
                   !.ev.consumed = Append(@, [id |-> pu.id, type |-> pu.type])]

\* powerUpsRef.current.forEach((pu, puIndex) => ...) inside the explosion callback
RECURSIVE CollidePowerUps(_, _, _, _, _)
CollidePowerUps(W, e, puIndex, n, time) ==
    IF puIndex > n \/ puIndex > Len(W.powerUps) THEN W
    ELSE LET pu == W.powerUps[puIndex]
         IN  CollidePowerUps(IF Within(e, pu.x, pu.y) THEN Consume(W, pu, puIndex, time)
                             ELSE W,
                             e, puIndex + 1, n, time)

\* the growth or decay of one explosion in one frame
StepExplosion(e) ==
    IF e.growing
    THEN [e EXCEPT !.radius = @ + EXPLOSION_SPEED,
                   !.growing = ~(e.radius + EXPLOSION_SPEED >= e.maxRadius)]
    ELSE [e EXCEPT !.radius = @ - EXPLOSION_SPEED \div 2]

\* the removal test taken on the radius before the step
SpentLate(e0, e) == ~e0.growing /\ e0.radius <= 0

\* whether the stepped explosion e (e0 before the step) is spliced out
Spent(e0, e) == ~e0.growing /\ e.radius <= 0

\* explosionsRef.current.forEach((exp, index) => ...)
RECURSIVE UpdateExplosions(_, _, _, _)
UpdateExplosions(W, index, n, time) ==
    IF index > n \/ index > Len(W.explosions) THEN W
    ELSE LET e0 == W.explosions[index]
             e == StepExplosion(e0)
             W1 == [W EXCEPT !.explosions[index] = e,
                             !.ev.blasts = Append(@, e.id)]
             W2 == IF Spent(e0, e)
                   THEN [W1 EXCEPT !.explosions = Splice(@, index),
                                   !.ev.removedBlasts = Append(@, e.id)]
                   ELSE W1
             W3 == CollideRockets(W2, e, 1, Len(W2.rockets))
             W4 == CollidePowerUps(W3, e, 1, Len(W3.powerUps), time)
         IN  UpdateExplosions(W4, index + 1, n, time)

\* an ammunition check that only catches a battery below zero
CheckAmmoBelowZero(bs) ==
    [k \in 1..Len(bs) |->
        IF bs[k].active /\ bs[k].missiles < 0
        THEN [bs[k] EXCEPT !.active = FALSE] ELSE bs[k]]

\* Check battery ammo
CheckAmmo(bs) ==
    [k \in 1..Len(bs) |->
        IF bs[k].active /\ bs[k].missiles < Cost(k - 1)
        THEN [bs[k] EXCEPT !.active = FALSE] ELSE bs[k]]

\* some battery inactive, instead of every
AnyInactive(bs) == \E k \in 1..Len(bs) : ~bs[k].active

\* batteriesRef.current.every(b => !b.active)
AllInactive(bs) == \A k \in 1..Len(bs) : ~bs[k].active

\* the state a frame starts from
World(op) ==
    [rockets |-> rockets, missiles |-> missiles, explosions |-> explosions,
     powerUps |-> powerUps, batteries |-> batteries, cities |-> cities,
     score |-> score, sugar |-> <<>>, ev |-> Report(op)]

\* the passes of update after the spawn, at frame time `time'
Passes(W0, time) ==
    LET W1 == UpdateRockets(W0, 1, Len(W0.rockets), isSugarActive)
        W2 == UpdateMissiles(W1, 1, Len(W1.missiles))
        W3 == UpdatePowerUps(W2, 1, Len(W2.powerUps), time)
        W4 == UpdateExplosions(W3, 1, Len(W3.explosions), time)
    IN  [W4 EXCEPT !.batteries = CheckAmmo(@)]

\* a commit with the level-based win condition: the session is won at 1000 points
CommitWithWin(W, time) ==
    LET lost == AllInactive(W.batteries)
    IN
    /\ rockets' = W.rockets
    /\ missiles' = W.missiles
    /\ explosions' = W.explosions
    /\ powerUps' = W.powerUps
    /\ batteries' = W.batteries
    /\ cities' = W.cities
    /\ score' = W.score
    /\ isSugarActive' = IF Len(W.sugar) > 0 THEN TRUE ELSE isSugarActive
    /\ timers' = timers \o W.sugar
    /\ status' = IF lost THEN "LOST" ELSE IF W.score >= 1000 THEN "WON" ELSE status
    /\ last' = IF lost THEN [W.ev EXCEPT !.sfx = Append(@, "gameOver")] ELSE W.ev

\* a commit without the lose condition
CommitNeverLost(W, time) ==
    /\ rockets' = W.rockets
    /\ missiles' = W.missiles
    /\ explosions' = W.explosions
    /\ powerUps' = W.powerUps
    /\ batteries' = W.batteries
    /\ cities' = W.cities
    /\ score' = W.score
    /\ isSugarActive' = IF Len(W.sugar) > 0 THEN TRUE ELSE isSugarActive
    /\ timers' = timers \o W.sugar
    /\ status' = status
    /\ last' = W.ev

\* the frame's commit of W
Commit(W, time) ==
    LET lost == AllInactive(W.batteries)
    IN
    /\ rockets' = W.rockets
    /\ missiles' = W.missiles
    /\ explosions' = W.explosions
    /\ powerUps' = W.powerUps
    /\ batteries' = W.batteries
    /\ cities' = W.cities
    /\ score' = W.score
    /\ isSugarActive' = IF Len(W.sugar) > 0 THEN TRUE ELSE isSugarActive
    /\ timers' = timers \o W.sugar
    /\ status' = IF lost THEN "LOST" ELSE status
    /\ last' = IF lost THEN [W.ev EXCEPT !.sfx = Append(@, "gameOver")] ELSE W.ev

---------------------------------------------------------------------------
(* Bounds of the model, and the inputs the handlers are given *)

\* the frames a run may hold
MaxTicks == 6
\* the largest id a fire command may still draw
MaxId == 4

\* the first id drawn in a run: ids are labels, and this one leaves two to the fire
\* commands
FirstId == MaxId - 1

\* the time between two frames of the requestAnimationFrame loop, ms
FrameMs == 16
\* the clock at the first state: the page has been open for ten seconds
StartClock == 625 * FrameMs
Horizon == StartClock + MaxTicks * FrameMs

\* the points of the fire commands: over the left, the center and the right
\* battery, in the ground band, and halfway between the left and the center battery
FirePoints == {Point(Px(100), Px(500)), Point(Px(400), Px(500)),
               Point(Px(700), Px(500)), Point(Px(400), Px(540)),
               Point(Px(250), Px(500))}

\* the draws of spawnRocket and spawnPowerUp
RocketSpeeds == {Cpx(50), Cpx(75)}
Picks(n) == IF n = 0 THEN {0} ELSE {0, n - 1}
PowerUpDraws == {"none", "AMMO", "SUGAR"}
PowerUpSpot == Point(Px(400), Px(380))

---------------------------------------------------------------------------
(* update(time): one frame of the requestAnimationFrame loop *)

\* a timeout that is due runs before the frame
NoTimerDue(time) == IF timers = <<>> THEN TRUE ELSE Head(timers) > time

update ==
    LET time == now + FrameMs
    IN
    /\ time <= Horizon
    /\ NoTimerDue(time)
    /\ now' = time
    /\ UNCHANGED voice
    /\ IF Idle(status)
       THEN /\ last' = Report("tick")
            /\ UNCHANGED <<status, score, isSugarActive, rockets, missiles, explosions,
                           powerUps, batteries, cities, lastSpawnTime, timers, nextId>>
       ELSE IF time - lastSpawnTime > SpawnDelay(score)
       THEN \E speed \in RocketSpeeds, draw \in PowerUpDraws,
               pick \in Picks(Len(SpawnTargets(cities, batteries))) :
               LET targets == SpawnTargets(cities, batteries)
                   startX == IF Len(targets) = 0 THEN 0 ELSE targets[pick + 1]
                   Wr == spawnRocket([World("tick") EXCEPT !.ev.spawned = TRUE],
                                     nextId, startX, pick, speed)
                   W0 == IF draw = "none" THEN Wr
                         ELSE spawnPowerUp(Wr, nextId + 1, draw, PowerUpSpot.x,
                                           PowerUpSpot.y, time)
               IN  /\ Commit(Passes(W0, time), time)
                   /\ lastSpawnTime' = time
                   /\ nextId' = nextId + 2
       ELSE /\ Commit(Passes(World("tick"), time), time)
            /\ UNCHANGED <<lastSpawnTime, nextId>>

\* the callback of setTimeout(() => setIsSugarActive(false), 5000), run when due
sugarTimeout ==
    /\ timers # <<>>
    /\ now' = Max(now, Head(timers))
    /\ timers' = Tail(timers)
    /\ isSugarActive' = FALSE
    /\ last' = Report("timeout")
    /\ UNCHANGED <<status, score, rockets, missiles, explosions, powerUps, batteries,
                   cities, lastSpawnTime, nextId>>
    /\ UNCHANGED voice

\* a fire command of the player; one that launches draws its ids below MaxId
Fire ==
    \E p \in FirePoints :
       /\ \/ nextId <= MaxId
          \/ status # "PLAYING" \/ TooLow(p.y) \/ BestBattery(batteries, p.x) = -1
       /\ handleFire(p.x, p.y)
       /\ UNCHANGED voice

---------------------------------------------------------------------------
(* The voice commander: the component of src/src/components/              *)
(* VoiceCommander.tsx and the VoiceService of src/src/services/           *)
(* voiceService.ts it drives.  JavaScript runs one handler at a time; the *)
(* handlers are the click on the voice button, the callbacks of the live  *)
(* session (onopen, onmessage, onclose, onerror), the resumption of       *)
(* startMic after getUserMedia, and onended of a buffer source.  The      *)
(* callback onopen runs while connect() awaits, and connect() resumes in  *)
(* the same task, before any other handler.  playNextInQueue is declared  *)
(* async and awaits nothing: it runs to its end inside the handler that   *)
(* calls it.  onaudioprocess, which only forwards microphone samples to   *)
(* the session, changes no state and is left out.                         *)

\* the value of a field that holds nothing
Null == 0

\* the fields of a VoiceService after construction
NoService == [session |-> Null, audioContext |-> Null, processor |-> Null,
              stream |-> Null]

\* no chunk has arrived
NothingHeard == [arrived |-> 0, played |-> <<>>, failed |-> {}, dropped |-> {}]

\* the component after mounting: useState, useRef and the effect that constructs
\* the VoiceService
Mounted ==
    /\ isActive = FALSE
    /\ isSpeaking = FALSE
    /\ audioQueue = <<>>
    /\ isPlaying = FALSE
    /\ audioContextRef = FALSE
    /\ service = NoService
    /\ sessions = <<>>
    /\ media = [pending |-> 0, count |-> 0, live |-> {}]
    /\ playing = {}
    /\ heard = NothingHeard
    /\ clicks = 0

\* the ids of the chunks of a queue
Ids(q) == {q[k].id : k \in 1..Len(q)}

\* what the playback handlers read and write
Sound == [audioQueue |-> audioQueue, isPlaying |-> isPlaying,
          isSpeaking |-> isSpeaking, audioContextRef |-> audioContextRef,
          playing |-> playing, heard |-> heard]

Put(P) ==
    /\ audioQueue' = P.audioQueue
    /\ isPlaying' = P.isPlaying
    /\ isSpeaking' = P.isSpeaking
    /\ audioContextRef' = P.audioContextRef
    /\ playing' = P.playing
    /\ heard' = P.heard

\* playNextInQueue(): with an empty queue the flag is cleared; otherwise the head
\* is taken off, decoded and started, and a chunk that throws on the way is
\* followed by the next one at once
RECURSIVE playNextInQueue(_)
playNextInQueue(P) ==
    IF P.audioQueue = <<>>
    THEN [P EXCEPT !.isPlaying = FALSE, !.isSpeaking = FALSE]
    ELSE LET base64Data == Head(P.audioQueue)
             Q == [P EXCEPT !.isPlaying = TRUE, !.isSpeaking = TRUE,
                            !.audioQueue = Tail(@), !.audioContextRef = TRUE]
         IN  IF base64Data.ok
             THEN [Q EXCEPT !.playing = @ \cup {base64Data.id},
                            !.heard.played = Append(@, base64Data.id)]
             ELSE playNextInQueue([Q EXCEPT !.heard.failed = @ \cup {base64Data.id}])

\* onAudioData that starts the playback whether or not a chunk plays
onAudioDataUnguarded(P, data) ==
    playNextInQueue([P EXCEPT !.audioQueue = Append(@, data)])

\* the callback onAudioData(data) of toggleVoice
onAudioData(P, data) ==
    LET Q == [P EXCEPT !.audioQueue = Append(@, data)]
    IN  IF ~Q.isPlaying THEN playNextInQueue(Q) ELSE Q

\* the callback onInterrupted() of toggleVoice: the source that plays goes on
onInterrupted(P) ==
    [P EXCEPT !.audioQueue = <<>>, !.heard.dropped = @ \cup Ids(P.audioQueue)]

\* stopMic(): what the three fields hold is released and the fields are cleared
stopMic(svc) ==
    [svc EXCEPT !.processor = Null, !.audioContext = Null, !.stream = Null]

\* the captures still running after stopMic() on svc
Stopped(m, svc) == [m EXCEPT !.live = @ \ {svc.stream}]

\* session.close() on session i: the close handshake starts, onclose follows
Close(ss, i) == [ss EXCEPT ![i] = IF @ = "open" THEN "closing" ELSE @]

\* VoiceService.disconnect()
disconnect ==
    /\ sessions' = IF service.session # Null THEN Close(sessions, service.session)
                   ELSE sessions
    /\ service' = stopMic([service EXCEPT !.session = Null])
    /\ media' = Stopped(media, service)

\* VoiceService.connect(callbacks), up to its await: with a session held it
\* returns, otherwise ai.live.connect is asked for a new session
connect ==
    /\ sessions' = IF service.session # Null THEN sessions
                   ELSE Append(sessions, "connecting")
    /\ UNCHANGED <<service, media>>

---------------------------------------------------------------------------
(* Bounds of the voice commander's runs *)

\* the clicks on the voice button
MaxClicks == 3
\* the sessions ai.live.connect is asked for
MaxSessions == 2
\* the audio chunks the sessions deliver
MaxChunks == 3

---------------------------------------------------------------------------
(* The handlers of the voice commander *)

\* toggleVoice(): a click on the voice button; the component is rendered again
\* before the next click, so that isActive is the committed value
toggleVoice ==
    /\ clicks < MaxClicks
    /\ IF isActive \/ service.session # Null THEN TRUE ELSE Len(sessions) < MaxSessions
    /\ clicks' = clicks + 1
    /\ IF isActive
       THEN /\ disconnect
            /\ isActive' = FALSE
            /\ isSpeaking' = FALSE
            /\ audioQueue' = <<>>
            /\ heard' = [heard EXCEPT !.dropped = @ \cup Ids(audioQueue)]
            /\ UNCHANGED <<isPlaying, audioContextRef, playing>>
       ELSE /\ isActive' = TRUE
            /\ connect
            /\ UNCHANGED <<isSpeaking, audioQueue, isPlaying, audioContextRef, playing,
                           heard>>
    /\ UNCHANGED game

\* the socket of session i opens: the callback onopen calls startMic(), which
\* asks for the microphone and awaits; connect() resumes and stores the session
onopen ==
    \E i \in DOMAIN sessions :
       /\ sessions[i] = "connecting"
       /\ sessions' = [sessions EXCEPT ![i] = "open"]
       /\ media' = [media EXCEPT !.pending = @ + 1]
       /\ service' = [service EXCEPT !.session = i]
       /\ UNCHANGED <<isActive, isSpeaking, audioQueue, isPlaying, audioContextRef,
                      playing, heard, clicks>>
       /\ UNCHANGED game

\* startMic() resumes with the microphone granted: the stream, a new audio context
\* and its processor are stored over whatever the fields held
startMic ==
    /\ media.pending > 0
    /\ LET id == media.count + 1
       IN  /\ media' = [pending |-> media.pending - 1, count |-> id,
                        live |-> media.live \cup {id}]
           /\ service' = [service EXCEPT !.stream = id, !.audioContext = id,
                                         !.processor = id]
    /\ UNCHANGED <<isActive, isSpeaking, audioQueue, isPlaying, audioContextRef,
                   sessions, playing, heard, clicks>>
    /\ UNCHANGED game

\* startMic() resumes with getUserMedia rejected: the catch block logs
startMicRejected ==
    /\ media.pending > 0
    /\ media' = [media EXCEPT !.pending = @ - 1]
    /\ UNCHANGED <<isActive, isSpeaking, audioQueue, isPlaying, audioContextRef,
                   service, sessions, playing, heard, clicks>>
    /\ UNCHANGED game

\* onmessage of an open session: an audio part, the interrupted mark, or both
onmessage ==
    \E i \in DOMAIN sessions, audio \in BOOLEAN, ok \in BOOLEAN, interrupted \in BOOLEAN :
       /\ sessions[i] = "open"
       /\ audio \/ interrupted
       /\ audio => heard.arrived < MaxChunks
       /\ LET data == [id |-> heard.arrived + 1, ok |-> ok]
              P1 == IF audio
                    THEN onAudioData([Sound EXCEPT !.heard.arrived = @ + 1], data)
                    ELSE Sound
              P2 == IF interrupted THEN onInterrupted(P1) ELSE P1
          IN  Put(P2)
       /\ UNCHANGED <<isActive, service, sessions, media, clicks>>
       /\ UNCHANGED game

\* onclose of session i, closed by disconnect() or by the server
onclose ==
    \E i \in DOMAIN sessions :
       /\ sessions[i] \in {"open", "closing"}
       /\ sessions' = [sessions EXCEPT ![i] = "closed"]
       /\ service' = [stopMic(service) EXCEPT !.session = Null]
       /\ media' = Stopped(media, service)
       /\ UNCHANGED <<isActive, isSpeaking, audioQueue, isPlaying, audioContextRef,
                      playing, heard, clicks>>
       /\ UNCHANGED game

\* onerror of session i, while it connects or when it is open; the socket then
\* closes
onerror ==
    \E i \in DOMAIN sessions :
       /\ sessions[i] \in {"connecting", "open"}
       /\ sessions' = [sessions EXCEPT ![i] = "closing"]
       /\ service' = [stopMic(service) EXCEPT !.session = Null]
       /\ media' = Stopped(media, service)
       /\ UNCHANGED <<isActive, isSpeaking, audioQueue, isPlaying, audioContextRef,
                      playing, heard, clicks>>
       /\ UNCHANGED game

\* source.onended of the chunk that plays
onended ==
    \E c \in playing :
       /\ Put(playNextInQueue([Sound EXCEPT !.playing = @ \ {c}]))
       /\ UNCHANGED <<isActive, service, sessions, media, clicks>>
       /\ UNCHANGED game

---------------------------------------------------------------------------
(* The specification *)

\* the state after construction of App
Constructed ==
    /\ status = "START"
    /\ score = 0
    /\ isSugarActive = FALSE
    /\ rockets = <<>>
    /\ missiles = <<>>
    /\ explosions = <<>>
    /\ powerUps = <<>>
    /\ batteries = InitialBatteries
    /\ cities = InitialCities
    /\ lastSpawnTime = 0
    /\ timers = <<>>
    /\ now = StartClock
    /\ nextId = FirstId
    /\ last = NoEvents

---------------------------------------------------------------------------
(* States of a running session.  A rocket needs more than 700 frames to    *)
(* reach the ground and a blast lives for 40 frames and more, so the runs  *)
(* start, besides the constructed state, from states the program reaches   *)
(* later in a session; each is described with the play that leads to it.   *)
(* Every rocket below falls vertically (it was spawned right above its     *)
(* target) at 0.5 or 0.75 pixel per frame, and stands at a multiple of its *)
(* speed.  The ids of the entities already there are labels above the ids  *)
(* a run draws.                                                            *)

\* a rocket spawned at x, now at height y, aimed at the ground below it
Falling(id, x, y, speed) ==
    [id |-> id, start |-> Point(x, 0), current |-> Point(x, y),
     target |-> Point(x, CANVAS_HEIGHT - Px(20)), speed |-> speed]

\* a rocket spawned at (x0, 0) and aimed at the ground at x, now at (cx, cy)
Slanting(id, x0, x, cx, cy, speed) ==
    [id |-> id, start |-> Point(x0, 0), current |-> Point(cx, cy),
     target |-> Point(x, CANVAS_HEIGHT - Px(20)), speed |-> speed]

\* the batteries with the given ammunition, all active
Stocked(left, center, right) ==
    [k \in 1..3 |-> [InitialBatteries[k] EXCEPT !.missiles = <<left, center, right>>[k]]]

Running(sc, rs, es, ps, bs, cs, spawnedAt) ==
    /\ status = "PLAYING"
    /\ score = sc
    /\ isSugarActive = FALSE
    /\ rockets = rs
    /\ missiles = <<>>
    /\ explosions = es
    /\ powerUps = ps
    /\ batteries = bs
    /\ cities = cs
    /\ lastSpawnTime = spawnedAt
    /\ timers = <<>>
    /\ now = StartClock
    /\ nextId = FirstId
    /\ last = NoEvents

\* Two rockets about to land, on the right battery and on the city at 150; the left
\* battery has one shot left and the center battery one missile; the score is 20.
SceneGround ==
    Running(20,
            << Falling(101, Px(700), Cpx(57950), Cpx(50)),
               Falling(102, Px(150), Cpx(57900), Cpx(50)) >>,
            <<>>, <<>>, Stocked(10, 1, 50), InitialCities, StartClock)

\* The cities at 250 and 450 were hit while the score was 0.  The blast of the later
\* impact, at 250, is still growing (radius 17) and a rocket falls 18 above its
\* center; the blast of the earlier one, at 450, has faded to radius 1.25.
SceneBlasts ==
    Running(0,
            << Falling(101, Px(250), Px(562), Cpx(50)) >>,
            << [id |-> [kind |-> "impact", of |-> 102], x |-> Px(450),
                y |-> CANVAS_HEIGHT - Px(20), radius |-> Cpx(125), maxRadius |-> Px(20),
                growing |-> FALSE],
               [id |-> [kind |-> "impact", of |-> 103], x |-> Px(250),
                y |-> CANVAS_HEIGHT - Px(20), radius |-> Px(17), maxRadius |-> Px(20),
                growing |-> TRUE] >>,
            <<>>, InitialBatteries, Deactivate(InitialCities, {2, 4}), StartClock)

\* A missile of the center battery went off at (400, 300); its blast grows (radius
\* 9.5) towards two slow-time power-ups, 10 and 13 below its center.
SceneSugar ==
    Running(0, <<>>,
            << [id |-> [kind |-> "exp", of |-> 104], x |-> Px(400), y |-> Px(300),
                radius |-> Cpx(950), maxRadius |-> EXPLOSION_MAX_RADIUS,
                growing |-> TRUE] >>,
            << [id |-> 105, x |-> Px(400), y |-> Px(310), type |-> "SUGAR",
                createdAt |-> StartClock - 1000, duration |-> 5000],
               [id |-> 106, x |-> Px(400), y |-> Px(313), type |-> "SUGAR",
                createdAt |-> StartClock - 500, duration |-> 5000] >>,
            Stocked(50, 99, 50), InitialCities, StartClock)

\* Three rockets in the air; the one spawned first is the farthest from the center
\* battery's fire point.
SceneTracking ==
    Running(0,
            << Falling(101, Px(650), Cpx(9975), Cpx(75)),
               Falling(102, Px(400), Px(450), Cpx(50)),
               Falling(103, Px(350), Px(480), Cpx(50)) >>,
            <<>>, <<>>, InitialBatteries, InitialCities, StartClock)

\* Fifty rockets were destroyed (score 1000); the last spawn was 660 ms ago and
\* nothing is in the air.
SceneSpawn ==
    Running(1000, <<>>, <<>>, <<>>, InitialBatteries, InitialCities, StartClock - 660)

\* A rocket spawned at x = 215 and aimed at the city at 650 comes down its slope
\* (3 across, 4 down) at 0.75 per frame: after 964 frames it is 1.6 above the ground
\* and will pass it, by 0.2, in the third frame from here.
SceneSlant ==
    Running(0,
            << Slanting(101, Px(215), Px(650), Cpx(64880), Cpx(57840), Cpx(75)) >>,
            <<>>, <<>>, InitialBatteries, InitialCities, StartClock)

\* a missile of battery k (1-based) in flight: launched at (tx, ty) with the given
\* speed and reference, now at height cy above its battery
InFlight(id, k, tx, ty, speed, targetRocketId, cy) ==
    [NewMissile(id, InitialBatteries[k], tx, ty, speed, k - 1, targetRocketId)
        EXCEPT !.current.y = cy]

\* a running session with missiles in flight
Engaged(sc, rs, ms, bs, spawnedAt) ==
    /\ status = "PLAYING"
    /\ score = sc
    /\ isSugarActive = FALSE
    /\ rockets = rs
    /\ missiles = ms
    /\ explosions = <<>>
    /\ powerUps = <<>>
    /\ batteries = bs
    /\ cities = InitialCities
    /\ lastSpawnTime = spawnedAt
    /\ timers = <<>>
    /\ now = StartClock
    /\ nextId = FirstId
    /\ last = NoEvents

\* A rocket falls over the center battery, at 300.  The right battery fired at
\* (700, 500) seven frames ago and its missile, at 511, arrives in the next frame;
\* the center battery fired at the rocket three frames ago and its missile, at
\* 528.5, tracks it.
SceneVolley ==
    Engaged(60,
            << Falling(101, Px(400), Px(300), Cpx(50)) >>,
            << InFlight(102, 3, Px(700), Px(500), MISSILE_SPEED, NoId, Px(511)),
               InFlight(103, 2, Px(400), Px(300), (MISSILE_SPEED * 3) \div 2, 101,
                        Cpx(52850)) >>,
            Stocked(50, 99, 49), StartClock - 400)

\* The left battery was hit with 30 missiles left.  A missile of the right battery
\* went off at (700, 400) twelve frames ago; its blast (radius 20, growing) is about
\* to reach two rockets that fall over the right battery, the faster one having
\* caught up with the slower one at 379.5, and an ammunition power-up 21 to its left.
SceneCluster ==
    Running(40,
            << Falling(101, Px(700), Cpx(37950), Cpx(50)),
               Falling(102, Px(700), Cpx(37950), Cpx(75)) >>,
            << [id |-> [kind |-> "exp", of |-> 103], x |-> Px(700), y |-> Px(400),
                radius |-> Px(20), maxRadius |-> Px(70), growing |-> TRUE] >>,
            << [id |-> 104, x |-> Px(679), y |-> Px(399), type |-> "AMMO",
                createdAt |-> StartClock - 2000, duration |-> 5000] >>,
            [Stocked(30, 100, 49) EXCEPT ![1].active = FALSE],
            InitialCities, StartClock - 400)

\* A rocket falls over the center battery, at 300.  The center battery fired at it
\* 23 frames ago and again 3 frames ago, the right battery fired at (700, 500) in
\* between, 7 frames ago: the first tracking missile, at 318.5, reaches the rocket
\* in the next frame, the right battery's missile, at 511, is one move from its
\* target, and the second tracking missile is at 528.5.
SceneOrphan ==
    Engaged(60,
            << Falling(101, Px(400), Px(300), Cpx(50)) >>,
            << InFlight(102, 2, Px(400), Px(300), (MISSILE_SPEED * 3) \div 2, 101,
                        Cpx(31850)),
               InFlight(103, 3, Px(700), Px(500), MISSILE_SPEED, NoId, Px(511)),
               InFlight(104, 2, Px(400), Px(300), (MISSILE_SPEED * 3) \div 2, 101,
                        Cpx(52850)) >>,
            Stocked(50, 98, 49), StartClock - 400)

\* The page was hidden for a second and no frame ran: two power-ups, created 5.8
\* and 5 seconds ago, are both past their lifespan at the next frame.  Before that
\* the left battery fired at (100, 500), its missile, at 506.1, being one move from
\* its target, and a missile of the right battery went off at (700, 300): its
\* blast has grown to 69.5 of 70, and the younger power-up lies 70.5 from its center.
SceneStale ==
    /\ status = "PLAYING"
    /\ score = 100
    /\ isSugarActive = FALSE
    /\ rockets = <<>>
    /\ missiles = << InFlight(101, 1, Px(100), Px(500), (MISSILE_SPEED * 7) \div 10,
                              NoId, Cpx(50610)) >>
    /\ explosions = << [id |-> [kind |-> "exp", of |-> 102], x |-> Px(700),
                        y |-> Px(300), radius |-> Cpx(6950), maxRadius |-> Px(70),
                        growing |-> TRUE] >>
    /\ powerUps = << [id |-> 103, x |-> Px(200), y |-> Px(200), type |-> "SUGAR",
                      createdAt |-> StartClock - 5800, duration |-> 5000],
                     [id |-> 104, x |-> Cpx(62950), y |-> Px(300), type |-> "AMMO",
                      createdAt |-> StartClock - 5000, duration |-> 5000] >>
    /\ batteries = Stocked(40, 100, 49)
    /\ cities = InitialCities
    /\ lastSpawnTime = StartClock - 1200
    /\ timers = <<>>
    /\ now = StartClock
    /\ nextId = FirstId
    /\ last = NoEvents

\* Every structure and the left and the center battery were hit, at score 0; the
\* right battery is the only target left, the sky is empty and the next rocket is
\* due.
SceneLastStand ==
    Running(0, <<>>, <<>>, <<>>,
            [Stocked(50, 100, 50) EXCEPT ![1].active = FALSE, ![2].active = FALSE],
            Deactivate(InitialCities, 1..6), StartClock - 1490)

\* A rocket falls over the left battery at 0.75 per frame.  Thirty frames ago, when
\* it stood at 555, the center battery fired at it; the missile, steered along the
\* line from its start to the rocket, went by the rocket at 11.3 a frame ago and
\* is now at (85, 567), the rocket at 577.5, four frames above the ground.
SceneMiss ==
    Engaged(60,
            << Falling(101, Px(100), Cpx(57750), Cpx(75)) >>,
            << [InFlight(102, 2, Px(100), Cpx(57750), (MISSILE_SPEED * 3) \div 2, 101,
                         Cpx(56700)) EXCEPT !.current.x = Cpx(8500)] >>,
            Stocked(50, 99, 50), StartClock - 400)

Init ==
    /\ Constructed \/ SceneGround \/ SceneBlasts \/ SceneSugar \/ SceneTracking
           \/ SceneSpawn \/ SceneSlant \/ SceneVolley \/ SceneCluster \/ SceneOrphan
           \/ SceneStale \/ SceneLastStand \/ SceneMiss
    /\ Mounted

Next == initGame \/ Fire \/ update \/ sugarTimeout

Spec == Init /\ [][Next]_vars

\* the voice commander from its mounting, the game left at its start screen; a
\* buffer source that was started ends
VoiceInit == Constructed /\ Mounted

VoiceNext == toggleVoice \/ onopen \/ startMic \/ startMicRejected \/ onmessage
                \/ onclose \/ onerror \/ onended

VoiceSpec == VoiceInit /\ [][VoiceNext]_vars /\ WF_vars(onended)

---------------------------------------------------------------------------
(* Properties *)

\* the elements of a sequence
Range(seq) == {seq[k] : k \in 1..Len(seq)}

\* s less n penalties of a each, not below zero
Clamped(s, n, a) == IF s - n * a < 0 THEN 0 ELSE s - n * a

\* the score after the impacts imp, in their order: 10 per city and 30 per battery
RECURSIVE AfterImpacts(_, _)
AfterImpacts(s, imp) ==
    IF imp = <<>> THEN s
    ELSE AfterImpacts(Clamped(Clamped(s, Cardinality(Head(imp).cities), 10),
                              Cardinality(Head(imp).batteries), 30),
                      Tail(imp))

\* C1: the score is never negative; a frame changes it by the clamped penalties
\* of its impacts (10 per structure, 30 per emplacement) and then by 20 per
\* destroyed projectile, a reset sets it to 0, and nothing else changes it.
C1_ScoreNonNegative ==
    /\ score >= 0
    /\ last.op = "tick" =>
          score = AfterImpacts(last.score0, last.impacts) + 20 * Len(last.kills)
    /\ last.op = "init" => score = 0
    /\ last.op \in {"fire", "timeout"} => score = last.score0

\* C1 witness: an impact on an emplacement at score 20 left the score at 0
C1_Witness ==
    /\ last.op = "tick"
    /\ last.score0 = 20
    /\ \E k \in 1..Len(last.impacts) : last.impacts[k].batteries # {}
    /\ score = 0

\* C2: the status goes from running to lost in exactly the frame that ends with
\* all three emplacements inactive, in no other step, and a running session never
\* holds three inactive emplacements.
C2_LostExactly ==
    [][ /\ (status = "PLAYING" /\ status' = "LOST")
           <=> (status = "PLAYING" /\ last'.op = "tick"
                /\ \A k \in 1..3 : ~batteries'[k].active)
        /\ status' = "PLAYING" => \E k \in 1..3 : batteries'[k].active
        /\ status' = "LOST" => \A k \in 1..3 : ~batteries'[k].active ]_vars

\* C2 witness: the session was lost in a frame, the left emplacement having run
\* out of ammunition and the right one having been hit with its ammunition left
C2_Witness ==
    /\ status = "LOST"
    /\ last.op = "tick"
    /\ last.status0 = "PLAYING"
    /\ batteries[1].missiles = 0
    /\ batteries[3].missiles > 0

\* C3: a start/reset leaves a running session with score 0, slow-time off, the
\* four pools empty, the emplacements active with 50/100/50 of 50/100/50 and the
\* six structures active.
C3_ResetState ==
    last.op = "init" =>
        /\ status = "PLAYING"
        /\ score = 0
        /\ isSugarActive = FALSE
        /\ rockets = <<>> /\ missiles = <<>> /\ explosions = <<>> /\ powerUps = <<>>
        /\ Len(batteries) = 3
        /\ \A k \in 1..3 : /\ batteries[k].active
                           /\ batteries[k].missiles = <<50, 100, 50>>[k]
                           /\ batteries[k].maxMissiles = <<50, 100, 50>>[k]
        /\ Len(cities) = 6
        /\ \A k \in 1..6 : cities[k].active

\* C3 witness: a reset of a lost session
C3_Witness ==
    /\ last.op = "init"
    /\ last.status0 = "LOST"

\* the emplacements other than the left one that a fire command may use
OthersReady(bs) == {k \in 2..3 : bs[k].active /\ bs[k].missiles >= 1}

\* the left emplacement is active and no other usable emplacement is closer to x:
\* the selection would take it if its ammunition sufficed
LeftWouldBeSelected(bs, x) ==
    /\ bs[1].active
    /\ \A k \in OthersReady(bs) : Abs(bs[1].x - x) <= Abs(bs[k].x - x)

\* the missiles a step appended to the pool
Launched == SubSeq(missiles', Len(missiles) + 1, Len(missiles'))

\* C4 as claimed: a fire command that would select the left emplacement while it
\* holds less than 10 creates no interceptor and deducts nothing anywhere.
C4_Original ==
    [][ ( /\ last'.op = "fire" /\ status = "PLAYING" /\ last'.y <= Px(520)
          /\ LeftWouldBeSelected(batteries, last'.x)
          /\ batteries[1].missiles < 10 )
        => (missiles' = missiles /\ batteries' = batteries) ]_vars

\* C4 as amended: with less than 10 the left emplacement never fires (nothing is
\* launched from it, its ammunition stays); a fire command that would have selected
\* it is served by the nearest other usable emplacement, and is a no-op only when
\* there is none.
C4_LeftNeverFiresShort ==
    [][ (last'.op = "fire" /\ batteries[1].missiles < 10) =>
          /\ batteries'[1] = batteries[1]
          /\ Len(missiles') >= Len(missiles)
          /\ SubSeq(missiles', 1, Len(missiles)) = missiles
          /\ \A k \in 1..Len(Launched) : Launched[k].batteryIndex # 0
          /\ ( /\ status = "PLAYING" /\ last'.y <= Px(520)
               /\ LeftWouldBeSelected(batteries, last'.x) )
             => IF OthersReady(batteries) = {}
                THEN missiles' = missiles /\ batteries' = batteries
                ELSE /\ Len(Launched) >= 1
                     /\ \A k \in 1..Len(Launched) :
                           LET j == Launched[k].batteryIndex + 1
                           IN  /\ j \in OthersReady(batteries)
                               /\ batteries'[j].missiles < batteries[j].missiles
                               /\ \A o \in OthersReady(batteries) :
                                     Abs(batteries[j].x - last'.x)
                                        <= Abs(batteries[o].x - last'.x) ]_vars

\* C4 witness: a fire over the left emplacement, active with no ammunition, was
\* served by the center emplacement
C4_Witness ==
    /\ last.op = "fire"
    /\ last.x = Px(100)
    /\ batteries[1].active
    /\ batteries[1].missiles < 10
    /\ last.best = 1
    /\ missiles # <<>>
    /\ missiles[Len(missiles)].batteryIndex = 1

\* C5: a fire that selects the center emplacement with no projectile alive adds
\* exactly one interceptor, untracked, aimed at the fire point, at speed 7 (1x),
\* and takes exactly 1 from the center emplacement's ammunition.
C5_CenterFireNoRockets ==
    [][ (last'.op = "fire" /\ last'.best = 1 /\ rockets = <<>>) =>
          /\ Len(missiles') = Len(missiles) + 1
          /\ SubSeq(missiles', 1, Len(missiles)) = missiles
          /\ LET m == missiles'[Len(missiles')]
             IN  /\ m.targetRocketId = NoId
                 /\ m.target = Point(last'.x, last'.y)
                 /\ m.speed = Px(7)
                 /\ m.batteryIndex = 1
                 /\ m.start = Point(batteries[2].x, batteries[2].y)
                 /\ m.current = m.start
          /\ batteries'[2].missiles = batteries[2].missiles - 1
          /\ batteries'[1] = batteries[1] /\ batteries'[3] = batteries[3] ]_vars

\* C5 witness: the center emplacement fired into an empty sky
C5_Witness ==
    /\ last.op = "fire"
    /\ last.best = 1
    /\ rockets = <<>>
    /\ missiles # <<>>
    /\ missiles[Len(missiles)].targetRocketId = NoId

\* C6: a fire that selects the center emplacement with k >= 1 projectiles alive
\* adds exactly min(k, 2) interceptors at speed 10.5 (1.5x), each tracking a
\* projectile of its own, none of the others being nearer to the fire point, and
\* takes exactly min(k, 2) from the center emplacement's ammunition.
C6_CenterFireTracking ==
    [][ (last'.op = "fire" /\ last'.best = 1 /\ Len(rockets) >= 1) =>
          LET n == IF Len(rockets) < 2 THEN Len(rockets) ELSE 2
              chosen == {Launched[j].targetRocketId : j \in 1..Len(Launched)}
          IN  /\ Len(missiles') = Len(missiles) + n
              /\ SubSeq(missiles', 1, Len(missiles)) = missiles
              /\ \A j \in 1..n :
                    /\ Launched[j].speed = Cpx(1050)
                    /\ Launched[j].batteryIndex = 1
                    /\ \E r \in Range(rockets) :
                          /\ r.id = Launched[j].targetRocketId
                          /\ Launched[j].target = r.current
              /\ Cardinality(chosen) = n
              /\ \A r \in Range(rockets), c \in Range(rockets) :
                    (c.id \in chosen /\ r.id \notin chosen) =>
                       Sq(c.current.x - last'.x) + Sq(c.current.y - last'.y)
                          <= Sq(r.current.x - last'.x) + Sq(r.current.y - last'.y)
              /\ batteries'[2].missiles = batteries[2].missiles - n
              /\ batteries'[1] = batteries[1] /\ batteries'[3] = batteries[3] ]_vars

\* C6 witness: of three projectiles alive the center emplacement tracks the two
\* nearest, which are not the first two of the pool
C6_Witness ==
    /\ last.op = "fire"
    /\ last.best = 1
    /\ Len(rockets) = 3
    /\ Len(missiles) >= 2
    /\ {missiles[k].targetRocketId : k \in (Len(missiles) - 1)..Len(missiles)}
          = {rockets[2].id, rockets[3].id}

\* C7: every blast of the pool has a radius >= 0 (a fading one a radius > 0);
\* from frame to frame a fading blast never grows again; and a frame removes a
\* blast only if it was fading and its radius, less the decay of 0.75, is <= 0.
C7_BlastPhases ==
    /\ [](\A e \in Range(explosions) : e.radius >= 0 /\ (~e.growing => e.radius > 0))
    /\ [][ /\ (last'.op = "tick" /\ status = "PLAYING") =>
                \A e \in Range(explosions) :
                   LET kept == {f \in Range(explosions') : f.id = e.id}
                   IN  /\ \A f \in kept : ~e.growing => ~f.growing
                       /\ kept = {} => (~e.growing /\ e.radius - Cpx(75) <= 0)
           /\ last'.op \in {"fire", "timeout"} => explosions' = explosions ]_vars

\* C7 witness: a frame removed a faded blast and kept a growing one
C7_Witness ==
    /\ last.op = "tick"
    /\ last.removedBlasts # <<>>
    /\ \E e \in Range(explosions) : e.growing

\* the score after impacts at the points xs, in their order, on the structures cs
\* and the emplacements bs that are still active
RECURSIVE ImpactScore(_, _, _, _)
ImpactScore(s, cs, bs, xs) ==
    IF xs = <<>> THEN s
    ELSE LET hc == {k \in cs : Abs(cities[k].x - Head(xs)) < Px(30)}
             hb == {k \in bs : Abs(batteries[k].x - Head(xs)) < Px(30)}
         IN  ImpactScore(Clamped(Clamped(s, Cardinality(hc), 10), Cardinality(hb), 30),
                         cs \ hc, bs \ hb, Tail(xs))

\* C8: a projectile that reaches or passes its target's y in a frame is removed in
\* that frame, leaves an impact blast (maximum radius 20) at its point, and every
\* structure and emplacement within 30 of its x is inactive after the frame; a
\* structure is deactivated by nothing else; the score pays 10 per structure and
\* 30 per emplacement struck, each clamped at zero.
C8_Impact ==
    [][ (last'.op = "tick" /\ status = "PLAYING") =>
          LET imp == last'.impacts
          IN  /\ \A j \in 1..Len(imp) :
                    /\ \E r \in Range(rockets) : r.id = imp[j].id
                    /\ \A r \in Range(rockets') : r.id # imp[j].id
                    /\ \A k \in 1..6 :
                          Abs(cities[k].x - imp[j].x) < Px(30) => ~cities'[k].active
                    /\ \A k \in 1..3 :
                          Abs(batteries[k].x - imp[j].x) < Px(30) => ~batteries'[k].active
                    /\ \E e \in Range(explosions') :
                          /\ e.id = [kind |-> "impact", of |-> imp[j].id]
                          /\ e.x = imp[j].x
                          /\ e.y >= Px(580)
                          /\ e.maxRadius = Px(20)
              /\ \A r \in Range(rockets') :
                    (\E k \in 1..Len(last'.moved) : last'.moved[k] = r.id)
                       => r.current.y < r.target.y
              /\ \A k \in 1..6 :
                    (cities[k].active /\ ~cities'[k].active) =>
                       \E j \in 1..Len(imp) : Abs(cities[k].x - imp[j].x) < Px(30)
              /\ score' = ImpactScore(score, {k \in 1..6 : cities[k].active},
                                      {k \in 1..3 : batteries[k].active},
                                      [j \in 1..Len(imp) |-> imp[j].x])
                          + 20 * Len(last'.kills) ]_vars

\* C8 witness: the projectile aimed at the structure at 150 landed and deactivated it
C8_Witness ==
    /\ last.op = "tick"
    /\ \E j \in 1..Len(last.impacts) : last.impacts[j].x = Px(150)
    /\ ~cities[1].active
    /\ \A r \in Range(rockets) : r.target.x # Px(150)

\* max(200, 1500 - min(s, 800)), written out
Interval(s) ==
    LET capped == IF s < 800 THEN s ELSE 800
    IN  IF 1500 - capped < 200 THEN 200 ELSE 1500 - capped

\* the scores up to the current one, in the steps the score moves in
ScoresBelow == {10 * i : i \in 0..(score \div 10)}

\* C9 as claimed: a frame of a running session spawns exactly when more than
\* max(200, 1500 - min(score, 800)) ms have passed since the last spawn; the
\* interval does not grow with the score; and it is 200 ms for every score >= 800.
C9_Original ==
    [][ (last'.op = "tick" /\ status = "PLAYING") =>
          /\ last'.spawned <=> (now' - lastSpawnTime > Interval(score))
          /\ \A s \in ScoresBelow : SpawnDelay(s) >= SpawnDelay(score)
          /\ score >= 800 => (last'.spawned <=> (now' - lastSpawnTime > 200)) ]_vars

\* C9 as amended: a frame of a running session spawns exactly when more than
\* max(200, 1500 - min(score, 800)) ms have passed since the last spawn; the
\* interval does not grow with the score; and it is 700 ms for every score >= 800
\* (the floor of 200 ms is never reached).
C9_SpawnInterval ==
    [][ (last'.op = "tick" /\ status = "PLAYING") =>
          /\ last'.spawned <=> (now' - lastSpawnTime > Interval(score))
          /\ \A s \in ScoresBelow : SpawnDelay(s) >= SpawnDelay(score)
          /\ score >= 800 =>
                /\ SpawnDelay(score) = 700
                /\ last'.spawned <=> (now' - lastSpawnTime > 700) ]_vars

\* C9 witness: at a score of 800 or more a frame spawned a projectile
C9_Witness ==
    /\ last.op = "tick"
    /\ last.score0 >= 800
    /\ last.spawned
    /\ lastSpawnTime = now
    /\ rockets # <<>>

\* C10 as claimed: once a slow-time power-up is consumed the effect stays on for the
\* 5 seconds that follow the most recent consumption: a timeout switches it off
\* only when every window that was started has run out.
C10_SugarWindow ==
    [][ (last'.op = "timeout" /\ isSugarActive /\ ~isSugarActive') =>
          \A k \in 1..Len(timers) : timers[k] <= now' ]_vars

\* the emplacements a fire command may use: active, holding 10 (left) or 1 (others)
Usable(bs) == {k \in 1..3 : bs[k].active /\ bs[k].missiles >= (IF k = 1 THEN 10 ELSE 1)}

\* k is the usable emplacement closest in x to the point; of two equally close
\* ones, the earlier
Closest(bs, k, x) ==
    /\ k \in Usable(bs)
    /\ \A j \in Usable(bs) :
          \/ Abs(bs[k].x - x) < Abs(bs[j].x - x)
          \/ Abs(bs[k].x - x) = Abs(bs[j].x - x) /\ k <= j

\* C11: a fire command of a running session above the ground band selects, among
\* the active emplacements holding their per-shot cost, the one closest in x to the
\* fire point, the earlier one (left, center, right) on equal distance: that one
\* launches and pays, the others are left as they are.
C11_Selection ==
    [][ (last'.op = "fire" /\ status = "PLAYING" /\ last'.y <= Px(520)
         /\ Usable(batteries) # {}) =>
          \E k \in 1..3 :
             /\ Closest(batteries, k, last'.x)
             /\ last'.best = k - 1
             /\ Len(Launched) >= 1
             /\ \A j \in 1..Len(Launched) :
                   /\ Launched[j].batteryIndex = k - 1
                   /\ Launched[j].start = Point(batteries[k].x, batteries[k].y)
             /\ batteries'[k].missiles < batteries[k].missiles
             /\ \A j \in 1..3 : j # k => batteries'[j] = batteries[j] ]_vars

\* C11 witness: a fire halfway between the left and the center emplacement, both
\* usable, was served by the left one
C11_Witness ==
    /\ last.op = "fire"
    /\ last.x = Px(250)
    /\ last.best = 0
    /\ batteries[2].active /\ batteries[2].missiles >= 1
    /\ missiles # <<>>
    /\ missiles[Len(missiles)].batteryIndex = 0

\* C12: a fire command into the ground band (y > 520), or one that finds no
\* usable emplacement, changes nothing: ammunition and active flags, score, status
\* and the four pools stay as they were.
C12_FireNoOp ==
    [][ (last'.op = "fire" /\ (last'.y > Px(520) \/ Usable(batteries) = {})) =>
          /\ batteries' = batteries
          /\ cities' = cities
          /\ score' = score
          /\ status' = status
          /\ rockets' = rockets
          /\ missiles' = missiles
          /\ explosions' = explosions
          /\ powerUps' = powerUps ]_vars

\* C12 witness: a fire above the ground band in a running session found no usable
\* emplacement, the left and the center one being active but empty
C12_Witness ==
    /\ last.op = "fire"
    /\ last.status0 = "PLAYING"
    /\ last.y <= Px(520)
    /\ last.best = -1
    /\ Usable(batteries) = {}
    /\ batteries[1].active /\ batteries[2].active

\* the point p lies within d of the segment from a to b
NearSegment(p, a, b, d) ==
    LET px == p.x - a.x
        py == p.y - a.y
        bx == b.x - a.x
        by == b.y - a.y
        along == px * bx + py * by
    IN  IF along <= 0 THEN Sq(px) + Sq(py) <= Sq(d)
        ELSE IF along >= Sq(bx) + Sq(by) THEN Sq(p.x - b.x) + Sq(p.y - b.y) <= Sq(d)
        ELSE Abs(px * by - py * bx) <= d * Isqrt(Sq(bx) + Sq(by))

\* C13: every projectile of the pool lies within one speed-step of the segment
\* from its origin to its target and above its target's height; from frame to
\* frame its y does not decrease; and the point at which a projectile lands is
\* within one speed-step of the segment and less than one speed-step below the
\* target's height.
C13_OnCourse ==
    /\ [](\A r \in Range(rockets) :
            /\ NearSegment(r.current, r.start, r.target, r.speed)
            /\ r.current.y < r.target.y)
    /\ [][ (last'.op = "tick" /\ status = "PLAYING") =>
             /\ \A r \in Range(rockets), q \in Range(rockets') :
                   q.id = r.id => q.current.y >= r.current.y
             /\ \A j \in 1..Len(last'.impacts) :
                   \E r \in Range(rockets), e \in Range(explosions') :
                      /\ r.id = last'.impacts[j].id
                      /\ e.id = [kind |-> "impact", of |-> r.id]
                      /\ NearSegment(Point(e.x, e.y), r.start, r.target, r.speed)
                      /\ e.y >= r.target.y
                      /\ e.y - r.target.y < r.speed
                      /\ e.y > r.current.y ]_vars

\* C13 witness: the projectile on the slope passed its target's height by 0.2 and
\* landed 0.15 beyond its target's x
C13_Witness ==
    /\ last.op = "tick"
    /\ rockets = <<>>
    /\ \E e \in Range(explosions) :
          /\ e.id = [kind |-> "impact", of |-> 101]
          /\ e.y = Cpx(58020)
          /\ e.x = Cpx(65015)

\* C14: the status is never won, and it changes only from not-started to running
\* by a start, from running to lost in a frame that leaves all emplacements
\* inactive, and from lost to running by a reset; a running session stays running
\* until it is lost.
C14_StatusMoves ==
    /\ [](status \in {"START", "PLAYING", "LOST"})
    /\ [][ status' # status =>
             \/ status = "START" /\ status' = "PLAYING" /\ last'.op = "init"
             \/ /\ status = "PLAYING" /\ status' = "LOST" /\ last'.op = "tick"
                /\ \A k \in 1..3 : ~batteries'[k].active
             \/ status = "LOST" /\ status' = "PLAYING" /\ last'.op = "init" ]_vars

\* C14 witness: a session that was lost in a frame runs again after a reset
C14_Witness ==
    /\ status = "PLAYING"
    /\ last.op = "init"
    /\ last.status0 = "LOST"
    /\ now > StartClock
    /\ AllInactive(batteries) = FALSE

\* C15 as claimed: after a frame of a running session every missile that holds a
\* reference to a rocket of the pool is aimed at that rocket's current point,
\* whichever other missiles went off in the frame.
C15_TrackingEveryTick ==
    [][ (last'.op = "tick" /\ status = "PLAYING") =>
          \A m \in Range(missiles'), r \in Range(rockets') :
             (m.targetRocketId # NoId /\ m.targetRocketId = r.id)
                => m.target = r.current ]_vars

\* C16 as claimed: in a frame of a running session every rocket of the pool is
\* moved exactly once and tested for the ground: afterwards it is either gone or
\* further down its course and above its target's height, also when a rocket
\* stored before it landed in the same frame.
C16_EveryRocketAdvanced ==
    [][ (last'.op = "tick" /\ status = "PLAYING") =>
          \A r \in Range(rockets) :
             /\ Cardinality({k \in 1..Len(last'.moved) : last'.moved[k] = r.id}) = 1
             /\ \A q \in Range(rockets') :
                   q.id = r.id => /\ q.current.y > r.current.y
                                  /\ q.current.y < q.target.y ]_vars

\* C17 as claimed: after the collision pass of a frame no rocket of the pool lies
\* strictly inside the radius of a blast of the pool, and every rocket the pass
\* destroyed was destroyed, and counted for 20, once.
C17_NoRocketInsideBlast ==
    [][ (last'.op = "tick" /\ status = "PLAYING") =>
          /\ \A e \in Range(explosions'), r \in Range(rockets') :
                ~( /\ e.radius > 0
                   /\ Sq(e.x - r.current.x) + Sq(e.y - r.current.y) < Sq(e.radius) )
          /\ \A j, k \in 1..Len(last'.kills) :
                last'.kills[j] = last'.kills[k] => j = k
          /\ \A j \in 1..Len(last'.kills) :
                \A r \in Range(rockets') : r.id # last'.kills[j] ]_vars

\* the blast the missile m left, if it went off in the step
BlastOf(m) == {e \in Range(explosions') : e.id = [kind |-> "exp", of |-> m.id]}

\* C18 as claimed: a frame that finds a missile with a reference to a rocket that is
\* no longer in the pool clears the reference and leaves the missile's target where
\* it was; a missile without a reference keeps its target; and a missile that goes
\* off leaves its blast at its target.
C18_LastKnownTarget ==
    [][ (last'.op = "tick" /\ status = "PLAYING") =>
          \A m \in Range(missiles) :
             LET gone == /\ m.targetRocketId # NoId
                         /\ \A r \in Range(rockets) : r.id # m.targetRocketId
             IN  /\ (gone \/ m.targetRocketId = NoId) =>
                       /\ \A q \in Range(missiles') :
                             q.id = m.id => /\ q.targetRocketId = NoId
                                            /\ q.target = m.target
                       /\ \A e \in BlastOf(m) : e.x = m.target.x /\ e.y = m.target.y
                 /\ (\A q \in Range(missiles') : q.id # m.id) => BlastOf(m) # {} ]_vars

\* C19: after a frame of a running session every active emplacement holds its
\* per-shot cost (10 for the left one, 1 for the others): one that the ammunition
\* check finds below its cost is inactive after the frame.
C19_ActiveHoldsCost ==
    [][ (last'.op = "tick" /\ status = "PLAYING") =>
          \A k \in 1..3 :
             LET cost == IF k = 1 THEN 10 ELSE 1
             IN  /\ batteries'[k].active => batteries'[k].missiles >= cost
                 /\ batteries'[k].missiles < cost => ~batteries'[k].active ]_vars

\* C19 witness: a frame found the left emplacement active and empty and made it
\* inactive, another emplacement staying active
C19_Witness ==
    /\ last.op = "tick"
    /\ last.status0 = "PLAYING"
    /\ status = "PLAYING"
    /\ ~batteries[1].active
    /\ batteries[1].missiles = 0
    /\ last.impacts = <<>>

\* C20: no frame, fire command or timeout makes an inactive emplacement or
\* structure active again or changes an inactive emplacement's ammunition; only a
\* start/reset does.
C20_InactiveStays ==
    [][ last'.op # "init" =>
          /\ \A k \in 1..3 : ~batteries[k].active => batteries'[k] = batteries[k]
          /\ \A k \in 1..6 : ~cities[k].active => cities'[k] = cities[k] ]_vars

\* C20 witness: a frame consumed an ammunition power-up, which refilled the right
\* emplacement, while the left one was inactive with 30 of 50
C20_Witness ==
    /\ last.op = "tick"
    /\ \E j \in 1..Len(last.consumed) : last.consumed[j].type = "AMMO"
    /\ ~batteries[1].active
    /\ batteries[1].missiles = 30
    /\ batteries[3].active
    /\ batteries[3].missiles = batteries[3].maxMissiles

\* C21: a frame in which a blast consumes an ammunition power-up leaves every
\* emplacement that is active at its maximum (50/100/50) and every inactive one
\* with the ammunition it had; the power-up is out of the pool and was consumed
\* once.
C21_AmmoRefill ==
    [][ ( /\ last'.op = "tick" /\ status = "PLAYING"
          /\ \E j \in 1..Len(last'.consumed) : last'.consumed[j].type = "AMMO" ) =>
          /\ \A k \in 1..3 :
                IF batteries'[k].active
                THEN /\ batteries'[k].missiles = <<50, 100, 50>>[k]
                     /\ batteries'[k].missiles = batteries'[k].maxMissiles
                ELSE batteries'[k].missiles = batteries[k].missiles
          /\ \A j \in 1..Len(last'.consumed) :
                /\ \A pu \in Range(powerUps') : pu.id # last'.consumed[j].id
                /\ \A i \in 1..Len(last'.consumed) :
                      last'.consumed[i].id = last'.consumed[j].id => i = j ]_vars

\* C21 witness: the right emplacement, at 49, was refilled to 50 by an ammunition
\* power-up that is gone from the pool
C21_Witness ==
    /\ last.op = "tick"
    /\ last.consumed = << [id |-> 104, type |-> "AMMO"] >>
    /\ batteries[3].missiles = 50
    /\ batteries[2].missiles = 100
    /\ powerUps = <<>>

\* C22: a fire that selects the left emplacement takes exactly 10 from it and adds
\* one missile at speed 4.9 (0.7x); one that selects the right emplacement takes
\* exactly 1 and adds one missile at speed 7 (1x); the missile is untracked, aimed
\* at the fire point, starts at the emplacement and records its index.
C22_LeftRightFire ==
    [][ (last'.op = "fire" /\ last'.best \in {0, 2}) =>
          LET k == last'.best + 1
              m == missiles'[Len(missiles')]
          IN  /\ Len(missiles') = Len(missiles) + 1
              /\ SubSeq(missiles', 1, Len(missiles)) = missiles
              /\ m.targetRocketId = NoId
              /\ m.target = Point(last'.x, last'.y)
              /\ m.speed = IF k = 1 THEN Cpx(490) ELSE Px(7)
              /\ m.start = Point(batteries[k].x, batteries[k].y)
              /\ m.current = m.start
              /\ m.batteryIndex = last'.best
              /\ batteries'[k].missiles
                    = batteries[k].missiles - (IF k = 1 THEN 10 ELSE 1)
              /\ \A j \in 1..3 : j # k => batteries'[j] = batteries[j] ]_vars

\* C22 witness: the left emplacement fired and then the right one
C22_Witness ==
    /\ last.op = "fire"
    /\ last.best = 2
    /\ Len(missiles) >= 2
    /\ missiles[Len(missiles)].batteryIndex = 2
    /\ missiles[Len(missiles) - 1].batteryIndex = 0
    /\ missiles[Len(missiles) - 1].speed = Cpx(490)

\* the blasts of the pool after the step that carry the id of missile m
BlastsOf(m) ==
    {i \in 1..Len(explosions') : explosions'[i].id = [kind |-> "exp", of |-> m.id]}

\* C23: a missile that a frame takes out of the pool leaves exactly one blast,
\* growing, with maximum radius 150 (left), 70 (right) or 35 (center), centred on
\* its target: the point it was aimed at or, if it tracks a rocket of the pool, the
\* point of that rocket in that frame; a missile that moved and stays in the pool
\* is not within one speed-step of its target.
C23_Detonation ==
    [][ (last'.op = "tick" /\ status = "PLAYING") =>
          \A m \in Range(missiles) :
             IF \A q \in Range(missiles') : q.id # m.id
             THEN /\ Cardinality(BlastsOf(m)) = 1
                  /\ \A i \in BlastsOf(m) :
                        LET e == explosions'[i]
                        IN  /\ e.growing
                            /\ e.maxRadius = <<Px(150), Px(35), Px(70)>>[m.batteryIndex + 1]
                            /\ e.radius <= e.maxRadius
                            /\ \/ e.x = m.target.x /\ e.y = m.target.y
                               \/ \E r \in Range(rockets) :
                                     /\ r.id = m.targetRocketId
                                     /\ Sq(e.x - r.current.x) + Sq(e.y - r.current.y)
                                           <= Sq(r.speed)
             ELSE /\ BlastsOf(m) = {}
                  /\ \A q \in Range(missiles') :
                        (q.id = m.id /\ q.current # m.current) =>
                           Sq(q.target.x - q.current.x) + Sq(q.target.y - q.current.y)
                              >= Sq(q.speed) ]_vars

\* C23 witness: the missile of the left emplacement went off at its target and left
\* a blast of maximum radius 150
C23_Witness ==
    /\ last.op = "tick"
    /\ last.detonated = <<101>>
    /\ \E e \in Range(explosions) :
          /\ e.id = [kind |-> "exp", of |-> 101]
          /\ e.maxRadius = Px(150)
          /\ e.x = Px(100) /\ e.y = Px(500)

\* C24 as claimed: the radius of a blast is never above its maximum radius.
C24_RadiusWithinMax ==
    \A e \in Range(explosions) : e.radius <= e.maxRadius

\* C25 as claimed: the ammunition of every emplacement is between 0 and its
\* capacity.
C25_AmmoInRange ==
    \A k \in 1..3 : /\ batteries[k].missiles >= 0
                     /\ batteries[k].missiles <= batteries[k].maxMissiles

\* the missile tracks nothing, and either its position is NaN or it stands a step
\* or more from its target and its step does not bring it nearer: its target and
\* its step are fixed from here on, so it is never within a step of its target
Lost(m) ==
    /\ m.targetRocketId = NoId
    /\ \/ m.current.x = NaN
       \/ LET n == MoveMissile(m)
              vx == n.current.x - m.current.x
              vy == n.current.y - m.current.y
          IN  /\ n.current.x # NaN
              /\ Dist2(m.target, m.current.x, m.current.y) >= Sq(m.speed)
              /\ vx * (m.current.x - m.target.x) + vy * (m.current.y - m.target.y) >= 0

\* C26 as claimed, in the form a finite run refutes: every missile of the pool can
\* still detonate, none is on a course that takes it away from its target for ever.
C26_NoMissileLost ==
    \A m \in Range(missiles) : ~Lost(m)

\* C27: while the session is not running, a frame and a fire command change
\* neither the score, the emplacements, the structures, the four pools nor the
\* status.
C27_IdleNoOp ==
    [][ (status # "PLAYING" /\ last'.op \in {"tick", "fire"}) =>
          /\ score' = score
          /\ batteries' = batteries
          /\ cities' = cities
          /\ rockets' = rockets
          /\ missiles' = missiles
          /\ explosions' = explosions
          /\ powerUps' = powerUps
          /\ status' = status ]_vars

\* C27 witness: a fire command over the right emplacement, which holds ammunition,
\* in a lost session whose blasts are still in the pool
C27_Witness ==
    /\ status = "LOST"
    /\ last.op = "fire"
    /\ last.status0 = "LOST"
    /\ last.x = Px(700)
    /\ batteries[3].missiles >= 1
    /\ explosions # <<>>

\* C28: a fire command changes at most the ammunition of the emplacement it
\* selected and the missile pool, which it extends at its end; the score, the
\* status, the slow-time flag, the structures, every active flag, the other
\* emplacements and the rocket, blast and power-up pools stay as they are.
C28_FireFrame ==
    [][ last'.op = "fire" =>
          /\ score' = score /\ status' = status /\ isSugarActive' = isSugarActive
          /\ cities' = cities
          /\ rockets' = rockets /\ explosions' = explosions /\ powerUps' = powerUps
          /\ Len(missiles') >= Len(missiles)
          /\ SubSeq(missiles', 1, Len(missiles)) = missiles
          /\ \A k \in 1..3 :
                /\ batteries'[k] = [batteries[k] EXCEPT !.missiles = batteries'[k].missiles]
                /\ k # last'.best + 1 => batteries'[k] = batteries[k]
          /\ now' = now /\ timers' = timers /\ lastSpawnTime' = lastSpawnTime ]_vars

\* C28 witness: the left emplacement fired its last shot between two frames and is
\* still active, with blasts in the pool
C28_Witness ==
    /\ last.op = "fire"
    /\ last.best = 0
    /\ batteries[1].missiles = 0
    /\ batteries[1].active
    /\ now > StartClock

\* C29: a running session has an active emplacement at every moment, so a frame
\* that spawns finds a target and adds its rocket.
C29_TargetsNeverEmpty ==
    /\ [](status = "PLAYING" => \E k \in 1..3 : batteries[k].active)
    /\ [][ (last'.op = "tick" /\ status = "PLAYING" /\ last'.spawned) =>
             /\ \E k \in 1..3 : batteries[k].active
             /\ \E r \in Range(rockets') :
                   /\ r.id = nextId
                   /\ \/ \E k \in 1..3 : batteries[k].active /\ r.target.x = batteries[k].x
                      \/ \E k \in 1..6 : cities[k].active /\ r.target.x = cities[k].x ]_vars

\* C29 witness: a frame of a session with one emplacement left spawned a rocket
C29_Witness ==
    /\ last.op = "tick"
    /\ last.status0 = "PLAYING"
    /\ last.spawned
    /\ Cardinality({k \in 1..3 : batteries[k].active}) = 1
    /\ \A k \in 1..6 : ~cities[k].active
    /\ rockets # <<>>
    /\ rockets[Len(rockets)].target.x = Px(700)

\* C30 as claimed: a power-up that is past its lifespan when a frame runs is out of
\* the pool after the frame and was not consumed in it.
C30_ExpiredNeverConsumed ==
    [][ (last'.op = "tick" /\ status = "PLAYING") =>
          \A pu \in Range(powerUps) :
             now' - pu.createdAt > pu.duration =>
                /\ \A q \in Range(powerUps') : q.id # pu.id
                /\ \A j \in 1..Len(last'.consumed) : last'.consumed[j].id # pu.id ]_vars

\* the sessions whose socket is open
OpenSessions == {i \in DOMAIN sessions : sessions[i] = "open"}

\* nothing is under way: no session connects or closes, no getUserMedia is pending
Settled ==
    /\ media.pending = 0
    /\ \A i \in DOMAIN sessions : sessions[i] \in {"open", "closed"}

\* C31 as claimed: at most one session is open at any time, and when the last
\* click switched the voice off (disconnect() with no later connect()) and
\* nothing is under way any more, no session is open and the service holds no
\* session, stream, audio context or processor, and no capture is running.
C31_OneSessionCleanDisconnect ==
    /\ Cardinality(OpenSessions) <= 1
    /\ (clicks > 0 /\ ~isActive /\ Settled) =>
          /\ OpenSessions = {}
          /\ service = NoService
          /\ media.live = {}

\* the chunks whose turn came: taken off the queue and started, or thrown on
Started == {heard.played[k] : k \in 1..Len(heard.played)} \cup heard.failed

\* at most one chunk plays
OneAtATime == Cardinality(playing) <= 1

\* the chunks were started in the order they arrived (their ids count the arrivals)
InArrivalOrder ==
    \A j, k \in 1..Len(heard.played) : j < k => heard.played[j] < heard.played[k]

\* the flag is false exactly when nothing plays and the queue is empty
FlagExact == (~isPlaying) <=> (playing = {} /\ audioQueue = <<>>)

=============================================================================
